---- MODULE Spec2Model ----
(***************************************************************************)
(* Rolling averages of NBA box scores (src/src/nba/analyzer/averages.py).  *)
(*                                                                         *)
(* AnalyticsController.calc_for_season walks a season one calendar day at  *)
(* a time, hands the day's game_stats rows to                              *)
(* DynamicAveragesCalculator.calculate_moving_average, which keeps one     *)
(* accumulator per (period, player), and persists a row of averages when   *)
(* the period's week boundary is crossed.  After the last day every        *)
(* accumulator is written once more.                                       *)
(*                                                                         *)
(* Dates are day numbers.  Floats are exact rationals <<num, den>> in      *)
(* lowest terms; normalize is tabulated in thousandths.  A stat row is     *)
(* modelled with one counting stat, points_scored: every other stat of     *)
(* lines 126-144 takes the same branches of write_averages.  The stamp     *)
(* created_timestamp (the wall clock) is left out of the rows.             *)
(*                                                                         *)
(* Besides the run of one season (Spec, SpecTenDays, SpecDepot) the module *)
(* holds the run over every season (SpecAllSeasons) and, with every stat   *)
(* of a row, the functions normalize (SpecNormalize), the snapshot of a    *)
(* record (SpecSnapshot), the composite scores (SpecComposites), the       *)
(* collector's store_records (SpecCollector) and the minutes of a scraped  *)
(* cell (SpecMinutes), each applied on its own.                            *)
(***************************************************************************)
EXTENDS Integers, Sequences, FiniteSets, TLC

VARIABLES
    pc,                  \* "AwaitingSeason", "ProcessingDay", "Done", "Failed",
                         \* "Aborted"; "Function" when one function is applied
    keys_left,           \* main's loop over season_dates.keys(): keys to come
    probe,               \* the argument and the result of a function applied
                         \* on its own
    season_arg,          \* the season calc_for_season is asked for
    solo,                \* per period, the same run with that period alone
    game_stats,          \* depot table NBA.game_stats
    dates,               \* season_dates.get(season): <<season_start, season_end>>
    current_date,        \* loop variable of calc_for_season
    loaded,              \* TRUE while calculate_moving_average runs on game_data
    game_data,           \* rows of the day not yet processed
    cache,               \* period -> player -> list of stat dicts
    games_played,        \* period -> player -> int
    saved_dates_tracker, \* LastSavedDatesTrackerByPeriod: flags and dates
    tables,              \* period -> rows of NBA.running_player_averages_<period>
    \* history variables, written but never read by the program's actions
    written,             \* the write_averages calls of the latest step
    last_row,            \* what the latest processed row saw, per period
    day_log,             \* what the current day's batch started from and did
    counts               \* records processed and flushes, per period and player

vars == <<pc, keys_left, probe, season_arg, solo, game_stats, dates, current_date, loaded, game_data, cache,
          games_played, saved_dates_tracker, tables,
          written, last_row, day_log, counts>>

-----------------------------------------------------------------------------
(* Bounds of the model *)

\* a player may have a record on each of the first MaxEarlyGames days
MaxEarlyGames == 3

-----------------------------------------------------------------------------
(* Program constants *)

ONE_WEEK == 1
THREE_WEEK == 3
NINE_WEEK == 9
AveragePeriods == {ONE_WEEK, THREE_WEEK, NINE_WEEK}
PeriodOrder == <<ONE_WEEK, THREE_WEEK, NINE_WEEK>>
DaysPerWeek == 7

Players == {"P1", "P2"}
Season == "2019-20"

-----------------------------------------------------------------------------
(* Arithmetic *)

Max(a, b) == IF a >= b THEN a ELSE b
Abs(a) == IF a < 0 THEN -a ELSE a

RECURSIVE GCD(_, _)
GCD(a, b) == IF b = 0 THEN a ELSE GCD(b, a % b)

\* the rational n/d, d > 0, in lowest terms
Rat(n, d) == LET g == GCD(Abs(n), d) IN IF n = 0 THEN <<0, 1>> ELSE <<n \div g, d \div g>>
RatAdd(x, y) == Rat(x[1] * y[2] + y[1] * x[2], x[2] * y[2])
RatDiv(x, m) == Rat(x[1], x[2] * m)
RatOfInt(n) == <<n, 1>>

\* python int(): truncation towards zero
IntTrunc(n, d) == IF n >= 0 THEN n \div d ELSE -((-n) \div d)

\* python dicts
EmptyDict == [k \in {} |-> 0]
Put(d, k, v) == [x \in (DOMAIN d) \cup {k} |-> IF x = k THEN v ELSE d[x]]

\* asinh(v / 2) / ln 10 in thousandths, for v in -20 .. 20
NormalizeTable ==
    <<-1302, -1280, -1257, -1232, -1206, -1178, -1148, -1116, -1082, -1045,
      -1004, -960, -910, -854, -790, -715, -627, -519, -383, -209,
      0,
      209, 383, 519, 627, 715, 790, 854, 910, 960, 1004,
      1045, 1082, 1116, 1148, 1178, 1206, 1232, 1257, 1280, 1302>>

normalizeMagnitude(value) == RatOfInt(NormalizeTable[Abs(value) + 21])

normalize(value) == RatOfInt(NormalizeTable[value + 21])

-----------------------------------------------------------------------------
(* write_averages *)

\* lines 210-213: avg = {}, max_games = 0, game_date = the caller's date
AvgStart(game_date) ==
    [filled |-> FALSE,
     avg |-> [player |-> "", season |-> "", week_id |-> 0, points_scored |-> <<0, 1>>],
     max_games |-> 0,
     game_date |-> game_date]

KeepLatestValue(game_date, value) == value

\* line 223: the date kept while looping over the stored entries
KeepDate(game_date, value) == Max(game_date, value)

\* lines 214-233, one pass of "for total in player_totals".  The keys of a
\* stat dict come in insertion order, games_played last (line 146), so the
\* sums of this pass are formed first and then divided by the max_games that
\* already includes this entry.  The division loop of lines 228-233 sits
\* inside the loop over the entries: it runs once per entry.
AvgStep(acc, total) ==
    LET max_games == Max(total.games_played, acc.max_games)
        sum == IF acc.filled
               THEN RatAdd(acc.avg.points_scored, total.points_scored)
               ELSE total.points_scored
    IN  [filled |-> TRUE,
         avg |-> [player |-> total.player,
                  season |-> total.season,
                  week_id |-> total.week_id,
                  points_scored |-> RatDiv(sum, max_games)],
         max_games |-> max_games,
         game_date |-> KeepDate(acc.game_date, total.game_date)]

RECURSIVE AvgLoop(_, _)
AvgLoop(player_totals, acc) ==
    IF player_totals = <<>> THEN acc
    ELSE AvgLoop(Tail(player_totals), AvgStep(acc, Head(player_totals)))

EvictNothing(player_totals) == player_totals

EvictNewest(player_totals) == SubSeq(player_totals, 1, Len(player_totals) - 1)

\* lines 250-251: player_totals.pop(0)
Evict(player_totals) == Tail(player_totals)

NoRow == [game_date |-> -1, player |-> "", season |-> "", week_id |-> 0,
          points_scored |-> <<0, 1>>, games_played |-> 0]

write_averagesUnguarded(game_date, period, player_totals) ==
    LET acc == AvgLoop(player_totals, AvgStart(game_date))
    IN  [saved |-> TRUE,
         row |-> IF acc.filled
                 THEN [game_date |-> acc.game_date,
                       player |-> acc.avg.player,
                       season |-> acc.avg.season,
                       week_id |-> acc.avg.week_id,
                       points_scored |-> acc.avg.points_scored,
                       games_played |-> acc.max_games]
                 ELSE NoRow,
         player_totals |-> IF Len(player_totals) > 0
                           THEN Evict(player_totals)
                           ELSE player_totals]

\* lines 234-252: the row handed to the depot, whether one was handed, and
\* the list afterwards
write_averages(game_date, period, player_totals) ==
    LET acc == AvgLoop(player_totals, AvgStart(game_date))
        saved == acc.filled
    IN  [saved |-> saved,
         row |-> IF saved
                 THEN [game_date |-> acc.game_date,
                       player |-> acc.avg.player,
                       season |-> acc.avg.season,
                       week_id |-> acc.avg.week_id,
                       points_scored |-> acc.avg.points_scored,
                       games_played |-> acc.max_games]
                 ELSE NoRow,
         player_totals |-> IF saved /\ Len(player_totals) > 0
                           THEN Evict(player_totals)
                           ELSE player_totals]

\* _insert_query, lines 15-67: insert, or on a conflict of
\* (game_date, player, season) overwrite the columns of the SET list, which
\* does not name week_id
SameKeyWithoutPlayer(r, row) ==
    r.game_date = row.game_date /\ r.season = row.season

SameKey(r, row) ==
    r.game_date = row.game_date /\ r.player = row.player /\ r.season = row.season

UpsertAddsGames(table, row) ==
    IF \E r \in table : SameKey(r, row)
    THEN {IF SameKey(r, row)
          THEN [row EXCEPT !.week_id = r.week_id,
                           !.games_played = r.games_played + row.games_played]
          ELSE r : r \in table}
    ELSE table \cup {row}

Upsert(table, row) ==
    IF \E r \in table : SameKey(r, row)
    THEN {IF SameKey(r, row) THEN [row EXCEPT !.week_id = r.week_id] ELSE r : r \in table}
    ELSE table \cup {row}

-----------------------------------------------------------------------------
(* check_games_played, reset_games_played, check_player_totals *)

\* lines 176-183: the dict afterwards; the value returned is its entry
check_games_played(gp, player) ==
    LET gp0 == IF player \in DOMAIN gp THEN gp ELSE Put(gp, player, 0)
    IN  Put(gp0, player, gp0[player] + 1)

ResetNothing(gp) == gp

\* lines 171-174
reset_games_played(gp) == EmptyDict

\* line 197
WeekId(game_date, period_date) == IntTrunc(game_date - period_date, DaysPerWeek)

FlushDueEveryWeek(week_id, period) == week_id > 0

\* line 199
FlushDue(week_id, period) == week_id > 0 /\ (week_id % period) = 0

check_player_totalsPrepends(all_player_totals, stat, period_date, period) ==
    LET player == stat.player
        player_totals == IF player \in DOMAIN all_player_totals
                         THEN all_player_totals[player] ELSE <<>>
        game_date == stat.game_date
        week_id == WeekId(game_date, period_date)
        due == FlushDue(week_id, period)
        w == write_averages(game_date, period, player_totals)
        after == IF due THEN w.player_totals ELSE player_totals
    IN  [all_player_totals |-> Put(all_player_totals, player, <<stat>> \o after),
         saved |-> due /\ w.saved,
         called |-> due,
         call |-> [kind |-> "rolling", period |-> period, player |-> player,
                   seed |-> game_date, before |-> player_totals,
                   saved |-> w.saved, row |-> w.row, after |-> w.player_totals]]

check_player_totalsAppendsFirst(all_player_totals, stat, period_date, period) ==
    LET player == stat.player
        player_totals == Append(IF player \in DOMAIN all_player_totals
                                THEN all_player_totals[player] ELSE <<>>, stat)
        game_date == stat.game_date
        week_id == WeekId(game_date, period_date)
        due == FlushDue(week_id, period)
        w == write_averages(game_date, period, player_totals)
        after == IF due THEN w.player_totals ELSE player_totals
    IN  [all_player_totals |-> Put(all_player_totals, player, after),
         saved |-> due /\ w.saved,
         called |-> due,
         call |-> [kind |-> "rolling", period |-> period, player |-> player,
                   seed |-> game_date, before |-> player_totals,
                   saved |-> w.saved, row |-> w.row, after |-> w.player_totals]]

\* lines 189-205: the period's dict afterwards, whether a row was saved, and
\* the write_averages call if one was made
check_player_totals(all_player_totals, stat, period_date, period) ==
    LET player == stat.player
        player_totals == IF player \in DOMAIN all_player_totals
                         THEN all_player_totals[player] ELSE <<>>
        game_date == stat.game_date
        week_id == WeekId(game_date, period_date)
        due == FlushDue(week_id, period)
        w == write_averages(game_date, period, player_totals)
        after == IF due THEN w.player_totals ELSE player_totals
    IN  [all_player_totals |-> Put(all_player_totals, player, Append(after, stat)),
         saved |-> due /\ w.saved,
         called |-> due,
         call |-> [kind |-> "rolling", period |-> period, player |-> player,
                   seed |-> game_date, before |-> player_totals,
                   saved |-> w.saved, row |-> w.row, after |-> w.player_totals]]

\* lines 152 and 158 assign stat['games_played'] again.  The lists of the
\* three periods hold the same dict object, so the entry appended to an
\* earlier period's list shows the later value.
Restamp(all_player_totals, player, value) ==
    LET player_totals == all_player_totals[player]
    IN  Put(all_player_totals, player,
            [player_totals EXCEPT ![Len(player_totals)].games_played = value])

-----------------------------------------------------------------------------
(* Inputs *)

\* the days a player may have a record on: the first days of the season,
\* the first boundary day of each period, and the first boundary day of the
\* shortest period after it has flushed once
GameDays(player) ==
    IF player = "P1"
    THEN (0 .. MaxEarlyGames - 1)
         \cup {DaysPerWeek * p : p \in AveragePeriods}
         \cup {2 * DaysPerWeek + 1}
    ELSE {1, DaysPerWeek}

\* seasons of three days, and of each period's length plus three days
SeasonEnds == {2} \cup {DaysPerWeek * p + 2 : p \in AveragePeriods}

RawPoints == {0, 10}

\* the keys of season_dates, and the seasons a caller may ask for
KnownSeasons == {Season}
RequestedSeasons == {Season, "1901-02"}

GameStatsRow(player, day, base) ==
    [player |-> player, game_date |-> day, season |-> Season,
     points_scored |-> base + 4 * (day % 2)]

-----------------------------------------------------------------------------
(* Initial state: the controller is constructed, the depot holds the      *)
(* season's rows                                                           *)

NoLastRow == [player |-> "", game_date |-> -1,
              period_date |-> [p \in AveragePeriods |-> 0],
              stamped |-> [p \in AveragePeriods |-> 0],
              before |-> [p \in AveragePeriods |-> <<>>],
              saved |-> [p \in AveragePeriods |-> FALSE],
              tables |-> [p \in AveragePeriods |-> {}]]

\* before calc_for_season there is no cache, counter or tracker
NoState(order) ==
    [games_played |-> [p \in {order[i] : i \in DOMAIN order} |-> EmptyDict],
     cache |-> [p \in {order[i] : i \in DOMAIN order} |-> EmptyDict],
     tracker |-> [flags |-> [p \in {order[i] : i \in DOMAIN order} |-> FALSE],
                  dates |-> [p \in {order[i] : i \in DOMAIN order} |-> 0]],
     tables |-> [p \in {order[i] : i \in DOMAIN order} |-> {}]]

\* what Init fixes besides the depot's rows and the season asked for
InitRest ==
    /\ pc = "AwaitingSeason"
    /\ current_date = 0
    /\ loaded = FALSE
    /\ game_data = {}
    /\ cache = [p \in AveragePeriods |-> EmptyDict]
    /\ games_played = [p \in AveragePeriods |-> EmptyDict]
    /\ saved_dates_tracker = [flags |-> [p \in AveragePeriods |-> FALSE],
                              dates |-> [p \in AveragePeriods |-> 0]]
    /\ tables = [p \in AveragePeriods |-> {}]
    /\ written = {}
    /\ last_row = NoLastRow
    /\ solo = [h \in AveragePeriods |-> NoState(<<h>>)]
    /\ day_log = [period_date |-> [p \in AveragePeriods |-> 0],
                  games_played |-> [p \in AveragePeriods |-> EmptyDict],
                  flushed |-> [p \in AveragePeriods |-> {}],
                  expected |-> NoState(PeriodOrder),
                  day |-> -1]
    /\ counts = [processed |-> [pl \in Players |-> 0],
                 flushes |-> [p \in AveragePeriods |-> [pl \in Players |-> 0]],
                 since_last |-> [p \in AveragePeriods |-> [pl \in Players |-> 0]],
                 since_previous |-> [p \in AveragePeriods |-> [pl \in Players |-> 0]],
                 rolling |-> [p \in AveragePeriods |-> [pl \in Players |-> 0]]]

\* no function has been applied on its own
NoProbe == [op |-> "none"]

\* main with --season (line 477): one call of calc_for_season
Init ==
    /\ InitRest
    /\ keys_left = <<>>
    /\ probe = NoProbe
    /\ season_arg \in RequestedSeasons
    /\ \E end \in SeasonEnds, base \in RawPoints :
         /\ dates = <<0, end>>
         /\ \E d1 \in SUBSET (GameDays("P1") \cap (0 .. end)),
               d2 \in SUBSET (GameDays("P2") \cap (0 .. end)) :
              game_stats = {GameStatsRow("P1", d, base) : d \in d1}
                           \cup {GameStatsRow("P2", d, base) : d \in d2}

-----------------------------------------------------------------------------
(* calc_for_season *)

\* LastSavedDatesTrackerByPeriod.__init__, lines 78-84
NewTracker(start) ==
    [flags |-> [p \in AveragePeriods |-> FALSE],
     dates |-> [p \in AveragePeriods |-> start]]

updateFlagOnly(tracker, period, next_date) ==
    [flags |-> [tracker.flags EXCEPT ![period] = FALSE],
     dates |-> tracker.dates]

updateToAWeekLater(tracker, period, next_date) ==
    [flags |-> [tracker.flags EXCEPT ![period] = FALSE],
     dates |-> [tracker.dates EXCEPT ![period] = next_date + DaysPerWeek]]

\* update_one_week, update_three_week, update_nine_week, lines 86-96
update(tracker, period, next_date) ==
    [flags |-> [tracker.flags EXCEPT ![period] = FALSE],
     dates |-> [tracker.dates EXCEPT ![period] = next_date]]

RECURSIVE UpdateUnflagged(_, _, _)
UpdateUnflagged(tracker, periods, next_date) ==
    IF periods = <<>> THEN tracker
    ELSE UpdateUnflagged(update(tracker, Head(periods), next_date), Tail(periods), next_date)

\* lines 439-444: the three updates, each under its flag
RECURSIVE UpdateFlagged(_, _, _)
UpdateFlagged(tracker, periods, next_date) ==
    IF periods = <<>> THEN tracker
    ELSE LET period == Head(periods)
             t == IF tracker.flags[period] THEN update(tracker, period, next_date) ELSE tracker
         IN  UpdateFlagged(t, Tail(periods), next_date)

NextDateSkipsADay(date) == date + 2

\* line 438
NextDate(date) == date + 1

\* line 434
Week(date, season_start) == IntTrunc(date - season_start, DaysPerWeek) + 1

\* the periods of a sequence of period calls
PeriodsOf(order) == {order[i] : i \in DOMAIN order}

\* the cache, the counters, the tracker and the tables as one value
Program ==
    [games_played |-> games_played, cache |-> cache,
     tracker |-> saved_dates_tracker, tables |-> tables]

StateOf(n) ==
    [games_played |-> n.games_played, cache |-> n.cache,
     tracker |-> n.tracker, tables |-> n.tables]

\* lines 422-431 for the periods of order, over empty tables
FreshState(order, start) ==
    [games_played |-> [p \in PeriodsOf(order) |-> EmptyDict],
     cache |-> [p \in PeriodsOf(order) |-> EmptyDict],
     tracker |-> [flags |-> [p \in PeriodsOf(order) |-> FALSE],
                  dates |-> [p \in PeriodsOf(order) |-> start]],
     tables |-> [p \in PeriodsOf(order) |-> {}]]

\* lines 119-162, the body of "for row in rows" for one row: what it makes
\* of the cache, the counters, the tracker's flags and the tables, and the
\* calls of check_player_totals (r).  order is the sequence of the period
\* calls, lines 146-162.
calculate_row(st, row, week, order) ==
    LET player == row.player
        stat0 == [player |-> player, game_date |-> row.game_date,
                  season |-> row.season,
                  week_id |-> week,
                  points_scored |-> normalize(row.points_scored),
                  games_played |-> 0]
        gp == [p \in PeriodsOf(order) |-> check_games_played(st.games_played[p], player)]
        stat == [p \in PeriodsOf(order) |-> [stat0 EXCEPT !.games_played = gp[p][player]]]
        r == [p \in PeriodsOf(order) |->
                check_player_totals(st.cache[p], stat[p], st.tracker.dates[p], p)]
        final == stat[order[Len(order)]].games_played
    IN  [games_played |-> gp,
         cache |-> [p \in PeriodsOf(order) |-> Restamp(r[p].all_player_totals, player, final)],
         tracker |-> [st.tracker EXCEPT
                        !.flags = [p \in PeriodsOf(order) |-> st.tracker.flags[p] \/ r[p].saved]],
         tables |-> [p \in PeriodsOf(order) |->
                       IF r[p].saved THEN Upsert(st.tables[p], r[p].call.row) ELSE st.tables[p]],
         r |-> r]

\* the loop of lines 119-162 over the rows of a day, taken in one order
RECURSIVE calculate_rows(_, _, _, _)
calculate_rows(st, rows, week, order) ==
    IF rows = {} THEN st
    ELSE LET row == CHOOSE x \in rows : TRUE
         IN  calculate_rows(StateOf(calculate_row(st, row, week, order)),
                            rows \ {row}, week, order)

EndOfDayResetsAll(st, order, next_date) ==
    [st EXCEPT
       !.games_played = [p \in PeriodsOf(order) |->
                           IF \E q \in PeriodsOf(order) : st.tracker.flags[q]
                           THEN reset_games_played(st.games_played[p])
                           ELSE st.games_played[p]],
       !.tracker = UpdateFlagged(st.tracker, order, next_date)]

\* lines 164-169, the resets that end calculate_moving_average, and lines
\* 439-444, the tracker updates
EndOfDay(st, order, next_date) ==
    [st EXCEPT
       !.games_played = [p \in PeriodsOf(order) |->
                           IF st.tracker.flags[p]
                           THEN reset_games_played(st.games_played[p])
                           ELSE st.games_played[p]],
       !.tracker = UpdateFlagged(st.tracker, order, next_date)]

\* lines 422-431: fresh cache, counters and tracker for the season
BeginSeason ==
    /\ pc' = "ProcessingDay"
    /\ current_date' = dates[1]
    /\ cache' = [p \in AveragePeriods |-> EmptyDict]
    /\ games_played' = [p \in AveragePeriods |-> EmptyDict]
    /\ saved_dates_tracker' = NewTracker(dates[1])
    /\ day_log' = [day_log EXCEPT !.period_date = [p \in AveragePeriods |-> dates[1]]]
    /\ solo' = [h \in AveragePeriods |-> FreshState(<<h>>, dates[1])]
    /\ UNCHANGED <<keys_left, probe, season_arg, game_stats, dates, loaded, game_data, tables, written, last_row, counts>>

\* lines 419-420: raise ValueError; main lets it end the process
RaiseSeasonNotFound ==
    /\ pc' = "Failed"
    /\ UNCHANGED <<keys_left, probe, season_arg, solo, game_stats, dates, current_date, loaded, game_data, cache,
                   games_played, saved_dates_tracker, tables, written, last_row, day_log, counts>>

StartSeasonChecksLate ==
    /\ pc = "AwaitingSeason"
    /\ IF season_arg \notin KnownSeasons
       THEN /\ pc' = "Failed"
            /\ loaded' = TRUE
            /\ game_data' = {r \in game_stats : r.game_date = dates[1]}
            /\ UNCHANGED <<keys_left, probe, season_arg, solo, game_stats, dates, current_date, cache,
                           games_played, saved_dates_tracker, tables, written, last_row,
                           day_log, counts>>
       ELSE BeginSeason

\* lines 418-431: calc_for_season up to its loop
StartSeason ==
    /\ pc = "AwaitingSeason"
    /\ IF season_arg \notin KnownSeasons THEN RaiseSeasonNotFound ELSE BeginSeason

\* lines 432-433 and load_by_dates, lines 365-367: the rows whose game_date
\* is BETWEEN current_date AND current_date
LoadDay ==
    /\ pc = "ProcessingDay"
    /\ ~loaded
    /\ current_date <= dates[2]
    /\ game_data' = {r \in game_stats : r.game_date >= current_date /\ r.game_date <= current_date}
    /\ loaded' = TRUE
    /\ written' = {}
    /\ last_row' = NoLastRow
    /\ day_log' = [period_date |-> saved_dates_tracker.dates,
                   games_played |-> games_played,
                   flushed |-> [p \in AveragePeriods |-> {}],
                   expected |-> calculate_rows(Program,
                                               {r \in game_stats : r.game_date = current_date},
                                               Week(current_date, dates[1]), PeriodOrder),
                   day |-> current_date]
    /\ UNCHANGED <<pc, keys_left, probe, season_arg, solo, game_stats, dates, current_date, cache, games_played,
                   saved_dates_tracker, tables, counts>>

\* lines 119-162, the body of "for row in rows" for one row.  The depot
\* returns the day's rows in no stated order.
ProcessRow ==
    /\ pc = "ProcessingDay"
    /\ loaded
    /\ \E row \in game_data :
         LET player == row.player
             n == calculate_row(Program, row, Week(current_date, dates[1]), PeriodOrder)
             gp == n.games_played
             r == n.r
         IN  /\ game_data' = game_data \ {row}
             /\ games_played' = n.games_played
             /\ cache' = n.cache
             /\ tables' = n.tables
             /\ saved_dates_tracker' = n.tracker
             /\ solo' = [h \in AveragePeriods |->
                           StateOf(calculate_row(solo[h], row, Week(current_date, dates[1]), <<h>>))]
             /\ written' = {r[p].call : p \in {q \in AveragePeriods : r[q].called}}
             /\ last_row' = [player |-> player, game_date |-> row.game_date,
                             period_date |-> saved_dates_tracker.dates,
                             stamped |-> [p \in AveragePeriods |-> gp[p][player]],
                             before |-> [p \in AveragePeriods |-> r[p].call.before],
                             saved |-> [p \in AveragePeriods |-> r[p].saved],
                             tables |-> tables]
             /\ day_log' = [day_log EXCEPT
                              !.flushed = [p \in AveragePeriods |->
                                             IF r[p].saved THEN day_log.flushed[p] \cup {player}
                                             ELSE day_log.flushed[p]]]
             /\ counts' =
                  [processed |-> [counts.processed EXCEPT ![player] = @ + 1],
                   flushes |-> [p \in AveragePeriods |->
                                  [counts.flushes[p] EXCEPT ![player] = IF r[p].saved THEN @ + 1 ELSE @]],
                   since_last |-> [p \in AveragePeriods |->
                                  [counts.since_last[p] EXCEPT ![player] = IF r[p].saved THEN 1 ELSE @ + 1]],
                   since_previous |-> [p \in AveragePeriods |->
                                  [counts.since_previous[p] EXCEPT ![player] =
                                     IF r[p].saved THEN counts.since_last[p][player] + 1 ELSE @ + 1]],
                   rolling |-> [p \in AveragePeriods |->
                                  [counts.rolling[p] EXCEPT ![player] = IF r[p].saved THEN @ + 1 ELSE @]]]
    /\ UNCHANGED <<pc, keys_left, probe, season_arg, game_stats, dates, current_date, loaded>>

\* lines 164-169, the resets that end calculate_moving_average, and lines
\* 438-444, the date step and the tracker updates
EndDay ==
    /\ pc = "ProcessingDay"
    /\ loaded
    /\ game_data = {}
    /\ games_played' = EndOfDay(Program, PeriodOrder, NextDate(current_date)).games_played
    /\ current_date' = NextDate(current_date)
    /\ saved_dates_tracker' = EndOfDay(Program, PeriodOrder, NextDate(current_date)).tracker
    /\ solo' = [h \in AveragePeriods |-> EndOfDay(solo[h], <<h>>, NextDate(current_date))]
    /\ loaded' = FALSE
    /\ UNCHANGED <<pc, keys_left, probe, season_arg, game_stats, dates, game_data, cache, tables, written, last_row,
                   day_log, counts>>

\* line 448 for one period and player: the seed date is the oldest entry's
ForcedWrite(totals, period, player) ==
    LET w == write_averages(totals[1].game_date, period, totals)
    IN  [kind |-> "force", period |-> period, player |-> player,
         seed |-> totals[1].game_date, before |-> totals,
         saved |-> w.saved, row |-> w.row, after |-> w.player_totals]

ForceWrite(period, player) == ForcedWrite(cache[period][player], period, player)

ForceFlushLeftOut ==
    /\ pc = "ProcessingDay"
    /\ ~loaded
    /\ current_date > dates[2]
    /\ pc' = "Done"
    /\ written' = {}
    /\ last_row' = NoLastRow
    /\ UNCHANGED <<keys_left, probe, season_arg, solo, game_stats, dates, current_date, loaded, game_data, cache, games_played,
                   saved_dates_tracker, tables, day_log, counts>>

RECURSIVE UpsertAll(_, _)
UpsertAll(table, rows) ==
    IF rows = {} THEN table
    ELSE LET row == CHOOSE x \in rows : TRUE
         IN  UpsertAll(Upsert(table, row), rows \ {row})

\* lines 446-448 as a function of the cache and the tables
FlushAll(st, order) ==
    LET w == [p \in PeriodsOf(order) |->
                [pl \in DOMAIN st.cache[p] |-> ForcedWrite(st.cache[p][pl], p, pl)]]
    IN  [st EXCEPT
           !.cache = [p \in PeriodsOf(order) |-> [pl \in DOMAIN st.cache[p] |-> w[p][pl].after]],
           !.tables = [p \in PeriodsOf(order) |->
                         UpsertAll(st.tables[p],
                                   {w[p][pl].row : pl \in {x \in DOMAIN st.cache[p] : w[p][x].saved}})]]

\* lines 446-448, after the loop over the days: every list of the cache is
\* written once.  The writes are for different tables or different players,
\* so their order does not show in the result.
ForceFlush ==
    /\ pc = "ProcessingDay"
    /\ ~loaded
    /\ current_date > dates[2]
    /\ LET w == [p \in AveragePeriods |-> [pl \in DOMAIN cache[p] |-> ForceWrite(p, pl)]]
       IN  /\ cache' = FlushAll(Program, PeriodOrder).cache
           /\ tables' = FlushAll(Program, PeriodOrder).tables
           /\ solo' = [h \in AveragePeriods |-> FlushAll(solo[h], <<h>>)]
           /\ written' = UNION {{w[p][pl] : pl \in DOMAIN cache[p]} : p \in AveragePeriods}
           /\ counts' =
                [counts EXCEPT
                   !.flushes = [p \in AveragePeriods |-> [pl \in Players |->
                                  IF pl \in DOMAIN cache[p] /\ w[p][pl].saved THEN @[p][pl] + 1 ELSE @[p][pl]]],
                   !.since_last = [p \in AveragePeriods |-> [pl \in Players |->
                                  IF pl \in DOMAIN cache[p] /\ w[p][pl].saved THEN 0 ELSE @[p][pl]]],
                   !.since_previous = [p \in AveragePeriods |-> [pl \in Players |->
                                  IF pl \in DOMAIN cache[p] /\ w[p][pl].saved
                                  THEN counts.since_last[p][pl] ELSE @[p][pl]]]]
    /\ pc' = "Done"
    /\ last_row' = NoLastRow
    /\ UNCHANGED <<keys_left, probe, season_arg, game_stats, dates, current_date, loaded, game_data, games_played,
                   saved_dates_tracker, day_log>>

Next == StartSeason \/ LoadDay \/ ProcessRow \/ EndDay \/ ForceFlush

Spec == Init /\ [][Next]_vars

\* the period calls of a row that come before the call for period
PeriodsBefore(order, period) ==
    SubSeq(order, 1, (CHOOSE i \in DOMAIN order : order[i] = period) - 1)

\* what an exception leaves: it unwinds calc_for_season, whose locals
\* cache, games_played and saved_dates_tracker are dropped, and main
\* (line 477) has no handler
Unwound ==
    /\ pc' = "Aborted"
    /\ loaded' = FALSE
    /\ game_data' = {}
    /\ cache' = NoState(PeriodOrder).cache
    /\ games_played' = NoState(PeriodOrder).games_played
    /\ saved_dates_tracker' = NoState(PeriodOrder).tracker
    /\ last_row' = NoLastRow
    /\ UNCHANGED <<keys_left, probe, season_arg, solo, game_stats, dates, current_date, day_log, counts>>

DepotFailsInRowRollsBack ==
    /\ pc = "ProcessingDay"
    /\ loaded
    /\ \E row \in game_data, period \in AveragePeriods :
         \E n \in {calculate_row(Program, row, Week(current_date, dates[1]),
                                  Append(PeriodsBefore(PeriodOrder, period), period))} :
             /\ n.r[period].saved
             /\ tables' = [p \in AveragePeriods |-> {}]
             /\ written' = {[n.r[period].call EXCEPT !.kind = "failed"]}
    /\ Unwound

\* lines 119-162 for a row whose depot call of line 247 raises in the call
\* for period: the calls for the earlier periods have written their rows,
\* no except clause is on the way out (lines 201, 148-162, 436, 477)
DepotFailsInRow ==
    /\ pc = "ProcessingDay"
    /\ loaded
    /\ \E row \in game_data, period \in AveragePeriods :
         \E n \in {calculate_row(Program, row, Week(current_date, dates[1]),
                                  Append(PeriodsBefore(PeriodOrder, period), period))} :
             LET earlier == PeriodsOf(PeriodsBefore(PeriodOrder, period))
             IN  /\ n.r[period].saved
                 /\ tables' = [p \in AveragePeriods |->
                                 IF p \in earlier THEN n.tables[p] ELSE tables[p]]
                 /\ written' = {n.r[p].call : p \in {q \in earlier : n.r[q].saved}}
                                \cup {[n.r[period].call EXCEPT !.kind = "failed"]}
    /\ Unwound

\* lines 446-448 when the depot call raises in the write for (period,
\* player): the lists of the earlier periods are written; of the period's
\* own players those that come earlier in its dict, whose order the model
\* does not keep, so any of the other players may have been written
DepotFailsInForceFlush ==
    /\ pc = "ProcessingDay"
    /\ ~loaded
    /\ current_date > dates[2]
    /\ \E period \in AveragePeriods :
         \E player \in DOMAIN cache[period] :
           \E others \in SUBSET (DOMAIN cache[period] \ {player}) :
             LET earlier == PeriodsOf(PeriodsBefore(PeriodOrder, period))
                 done == UNION {{ForceWrite(p, pl) : pl \in DOMAIN cache[p]} : p \in earlier}
             IN  /\ written' = done \cup {ForceWrite(period, pl) : pl \in others}
                                 \cup {[ForceWrite(period, player) EXCEPT !.kind = "failed"]}
                 /\ tables' = [p \in AveragePeriods |->
                                 UpsertAll(tables[p],
                                           {w.row : w \in {x \in written' :
                                                             x.period = p /\ x.kind = "force"}})]
    /\ Unwound

NextDepot == Next \/ DepotFailsInRow \/ DepotFailsInForceFlush

\* the controller with a depot whose writes may raise
SpecDepot == Init /\ [][NextDepot]_vars

\* the same controller on a season of the ten days 0..9 in which P1 has a
\* record on every day; P2's records vary
InitTenDays ==
    /\ InitRest
    /\ keys_left = <<>>
    /\ probe = NoProbe
    /\ season_arg = Season
    /\ dates = <<0, 9>>
    /\ \E base \in RawPoints, d2 \in SUBSET (GameDays("P2") \cap (0 .. 9)) :
         game_stats = {GameStatsRow("P1", d, base) : d \in 0 .. 9}
                      \cup {GameStatsRow("P2", d, base) : d \in d2}

SpecTenDays == InitTenDays /\ [][Next]_vars

-----------------------------------------------------------------------------
(* Properties *)

\* what the history variables describe
RowProcessed == last_row.player # ""
AfterBatch == pc # "AwaitingSeason" /\ ~loaded /\ day_log.day >= 0
HasRecord(player) ==
    \E r \in game_stats : /\ r.player = player /\ r.season = Season
                          /\ r.game_date >= dates[1] /\ r.game_date <= dates[2]
PlayedOn(player, day) == \E r \in game_stats : r.player = player /\ r.game_date = day
\* a player without an entry in the period's dict counts from zero (line 181)
Counter(period, player) ==
    IF player \in DOMAIN games_played[period] THEN games_played[period][player] ELSE 0
Stored(period, player) ==
    IF player \in DOMAIN cache[period] THEN cache[period][player] ELSE <<>>

SetMax(S) == CHOOSE x \in S : \A y \in S : y <= x
StoredDates(totals) == {totals[i].game_date : i \in 1 .. Len(totals)}
StoredGames(totals) == {totals[i].games_played : i \in 1 .. Len(totals)}
StoredPoints(totals) == {totals[i].points_scored : i \in 1 .. Len(totals)}

RECURSIVE SumPoints(_)
SumPoints(totals) ==
    IF totals = <<>> THEN <<0, 1>>
    ELSE RatAdd(Head(totals).points_scored, SumPoints(Tail(totals)))

\* the week index of the claim: floor of the days since the period's
\* reference date over seven
FloorWeek(period) ==
    (last_row.game_date - last_row.period_date[period]) \div DaysPerWeek

\* C1: for every processed record and every period of length L, a rolling
\* flush (a row is persisted, and the call reports it) happens if and only
\* if week_id > 0, week_id mod L = 0 and the player's accumulator already
\* held a snapshot, week_id being the floor of the days since the period's
\* reference date over 7; the period's flag is then set for the day.
C1_RollingFlushIffBoundary ==
    RowProcessed =>
        \A period \in AveragePeriods :
            LET week_id == FloorWeek(period)
                boundary == /\ week_id > 0
                            /\ week_id % period = 0
                            /\ Len(last_row.before[period]) >= 1
                persisted == tables[period] # last_row.tables[period]
            IN  /\ persisted <=> boundary
                /\ last_row.saved[period] <=> boundary
                /\ (loaded /\ boundary) => saved_dates_tracker.flags[period]

\* a record in week 3 since the reference date flushed the three-week period
C1_Witness ==
    /\ RowProcessed
    /\ FloorWeek(THREE_WEEK) = 3
    /\ last_row.saved[THREE_WEEK]
    /\ tables[THREE_WEEK] # last_row.tables[THREE_WEEK]

\* C2: the games_played of the snapshot just stored in a period's
\* accumulator is that period's own counter for the player after its
\* increment.
C2_StampIsOwnCounter ==
    RowProcessed =>
        \A period \in AveragePeriods :
            LET totals == cache[period][last_row.player]
            IN  totals[Len(totals)].games_played = last_row.stamped[period]

\* C3 as stated: an accumulator never holds more snapshots than the
\* player's records processed since the second-most-recent flush of that
\* player and period (the record that triggered that flush included).
C3_LengthWithinTwoFlushes ==
    \A period \in AveragePeriods : \A player \in Players :
        Len(Stored(period, player)) <= counts.since_previous[period][player]

\* C3 amended: an accumulator holds as many snapshots as records of the
\* player were processed since the start of the run, less one for each flush
\* of that player and period; so never more than the records processed since
\* the start of the run.
C3_LengthIsProcessedLessFlushes ==
    \A period \in AveragePeriods : \A player \in Players :
        /\ Len(Stored(period, player)) =
               counts.processed[player] - counts.flushes[period][player]
        /\ Len(Stored(period, player)) <= counts.processed[player]

\* after the second rolling flush of a player the accumulator still holds
\* snapshots from before the first one
C3_Witness ==
    /\ pc = "ProcessingDay"
    /\ \E period \in AveragePeriods : \E player \in Players :
         /\ counts.flushes[period][player] = 2
         /\ Len(Stored(period, player)) > counts.since_previous[period][player]
         /\ Stored(period, player)[1].game_date < DaysPerWeek

\* C4: a flush that persists a row evicts exactly the oldest entry: what is
\* left of the accumulator is the entries before the flush without the
\* first, in order, one fewer; the rolling flush then appends the new record.
C4_FlushEvictsOldest ==
    \A w \in written :
        LET now == cache[w.period][w.player]
            kept == IF w.kind = "rolling" THEN SubSeq(now, 1, Len(now) - 1) ELSE now
        IN  IF w.saved
            THEN /\ kept = Tail(w.before)
                 /\ Len(kept) = Len(w.before) - 1
                 /\ \A i \in 1 .. Len(w.before) : w.before[1].game_date <= w.before[i].game_date
                 /\ \E r \in tables[w.period] : SameKey(r, w.row)
            ELSE kept = w.before

\* a rolling flush of an accumulator that held three or more entries
C4_Witness ==
    \E w \in written : w.saved /\ Len(w.before) >= 3 /\ w.kind = "rolling"

\* C5: the points persisted by a flush are the sum of the stored points
\* divided once by the greatest stored games_played.
C5_MeanIsSumOverMaxGames ==
    \A w \in written :
        w.saved =>
            w.row.points_scored = RatDiv(SumPoints(w.before), SetMax(StoredGames(w.before)))

\* C6: when the stored snapshots all carry the same points, the points
\* persisted by the flush are those points.
C6_MeanOfIdenticalRecords ==
    \A w \in written :
        (w.saved /\ Cardinality(StoredPoints(w.before)) = 1) =>
            w.row.points_scored = w.before[1].points_scored

\* C7: while a day's batch is processed the reference dates stay what they
\* were when it started; after the batch a period's reference date is the
\* day after the processed day if a flush of the period fired in the batch,
\* and unchanged otherwise.
C7_ReferenceDateAfterBatch ==
    (pc # "AwaitingSeason" /\ day_log.day >= 0) =>
        \A period \in AveragePeriods :
            saved_dates_tracker.dates[period] =
                IF ~loaded /\ day_log.flushed[period] # {}
                THEN day_log.day + 1
                ELSE day_log.period_date[period]

\* after a batch in which the one-week period flushed and the three-week
\* period did not
C7_Witness ==
    /\ AfterBatch
    /\ day_log.flushed[ONE_WEEK] # {}
    /\ day_log.flushed[THREE_WEEK] = {}
    /\ saved_dates_tracker.dates[ONE_WEEK] = day_log.day + 1
    /\ saved_dates_tracker.dates[THREE_WEEK] < day_log.period_date[ONE_WEEK] + 1

\* C8: when a player flushed under a period during a day's batch, every
\* player's games-played counter of that period is zero once the batch is
\* over.
C8_HorizonWideReset ==
    AfterBatch =>
        \A period \in AveragePeriods :
            day_log.flushed[period] # {} =>
                \A player \in Players : Counter(period, player) = 0

\* P1 flushed; P2 had no record that day, had played before, and is reset
C8_Witness ==
    /\ AfterBatch
    /\ day_log.flushed[ONE_WEEK] = {"P1"}
    /\ ~PlayedOn("P2", day_log.day)
    /\ "P2" \in DOMAIN day_log.games_played[ONE_WEEK]
    /\ day_log.games_played[ONE_WEEK]["P2"] > 0
    /\ Counter(ONE_WEEK, "P2") = 0

\* C9 as stated: the game_date of the persisted row is the latest
\* game_date among the stored snapshots.
C9_DateIsLatestStored ==
    \A w \in written :
        w.saved => w.row.game_date = SetMax(StoredDates(w.before))

\* C9 amended: the game_date of the persisted row is the latest of the date
\* the caller passes and the stored game_dates: for a rolling flush the
\* game_date of the record that triggered it, for the flush at the end of
\* the season the latest stored game_date.  The row is stored under it.
C9_DateIsLatestOfSeedAndStored ==
    \A w \in written :
        w.saved =>
            /\ w.row.game_date = SetMax({w.seed} \cup StoredDates(w.before))
            /\ w.kind = "rolling" => w.row.game_date = last_row.game_date
            /\ w.kind = "force" => w.row.game_date = SetMax(StoredDates(w.before))
            /\ \E r \in tables[w.period] :
                   r.game_date = w.row.game_date /\ r.player = w.player

\* a rolling flush whose row is dated after every stored snapshot
C9_Witness ==
    \E w \in written :
        /\ w.saved /\ w.kind = "rolling"
        /\ w.row.game_date > SetMax(StoredDates(w.before))

\* C10: at Done every period's table holds a row for every player that had
\* a record in the season.
C10_RowForEveryPlayerAtDone ==
    pc = "Done" =>
        \A player \in Players :
            HasRecord(player) =>
                \A period \in AveragePeriods :
                    \E r \in tables[period] : r.player = player /\ r.season = Season

\* Done with a player whose nine-week period never reached a boundary
C10_Witness ==
    /\ pc = "Done"
    /\ \E player \in Players :
         /\ HasRecord(player)
         /\ counts.flushes[NINE_WEEK][player] = 1
         /\ \E w \in written : w.kind = "force" /\ w.period = NINE_WEEK /\ w.player = player
         /\ Cardinality({r \in tables[NINE_WEEK] : r.player = player}) = 1

\* C11: at Done, a player with records in the season for whom a period never
\* had a rolling flush has exactly one row in that period's table, and it is
\* the row the force-flush wrote.
C11_OneForcedRowWithoutRollingFlush ==
    pc = "Done" =>
        \A period \in AveragePeriods, player \in Players :
            (HasRecord(player) /\ counts.rolling[period][player] = 0) =>
                /\ Cardinality({r \in tables[period] :
                                  r.player = player /\ r.season = Season}) = 1
                /\ \E w \in written :
                       /\ w.kind = "force" /\ w.period = period /\ w.player = player
                       /\ w.saved
                       /\ w.row \in tables[period]

\* Done after a season of three days with a record on each: the nine-week
\* table holds the one forced row, averaged over the three records
C11_Witness ==
    /\ pc = "Done"
    /\ dates[2] - dates[1] = 2
    /\ \E player \in Players :
         /\ counts.processed[player] = 3
         /\ counts.rolling[NINE_WEEK][player] = 0
         /\ \E r \in tables[NINE_WEEK] : r.player = player /\ r.games_played = 3

\* what exists before calc_for_season has done anything
NothingDone ==
    /\ ~loaded
    /\ game_data = {}
    /\ cache = [p \in AveragePeriods |-> EmptyDict]
    /\ games_played = [p \in AveragePeriods |-> EmptyDict]
    /\ tables = [p \in AveragePeriods |-> {}]
    /\ written = {}
    /\ day_log.day = -1
    /\ \A player \in Players : counts.processed[player] = 0

\* C19: when the season asked for is not a known season, the run only ever
\* fails: no day is loaded, no cache list or counter exists, no table has a
\* row; and only such a request fails.
C19_UnknownSeasonChangesNothing ==
    /\ season_arg \notin KnownSeasons => (pc \in {"AwaitingSeason", "Failed"} /\ NothingDone)
    /\ pc = "Failed" => season_arg \notin KnownSeasons

\* the ValueError was raised while the depot holds rows of the known season
C19_Witness ==
    /\ pc = "Failed"
    /\ season_arg \notin KnownSeasons
    /\ game_stats # {}
    /\ NothingDone

\* C13: no key of a period's table is written twice in a run: every flush,
\* rolling or forced, adds a row, so a player's rows in the table number as
\* many as the player's flushes under the period.
C13_NoKeyWrittenTwice ==
    \A period \in AveragePeriods, player \in Players :
        Cardinality({r \in tables[period] : r.player = player})
            = counts.flushes[period][player]

\* C15: a row written to a period's table is stored with every column as
\* written, week_id included, also when its key was already in the table.
C15_StoredRowEqualsWrittenRow ==
    \A w \in written : w.saved => w.row \in tables[w.period]

\* C16: writing again a row that a period's table already holds, with the
\* same key and the same values, leaves the table as it is.
C16_SameRowAgainChangesNothing ==
    \A period \in AveragePeriods :
        \A r \in tables[period] : Upsert(tables[period], r) = tables[period]

\* a table of two rows with games played, each of which can be written again
C16_Witness ==
    \E period \in AveragePeriods :
        /\ Cardinality(tables[period]) >= 2
        /\ \A r \in tables[period] :
               r.games_played > 0 /\ Upsert(tables[period], r) = tables[period]

\* C20 as claimed: write_averages is only called on a list with an entry.
C20_NeverCalledOnEmptyList ==
    \A w \in written : Len(w.before) >= 1

\* C20: write_averages is called on an empty list only by the boundary check
\* of a row, never by the final loop, and then it hands no row to the depot,
\* leaves the list empty and the period's table as it was.
C20_EmptyCallIsRollingAndInert ==
    \A w \in written :
        /\ w.kind = "force" => Len(w.before) >= 1
        /\ Len(w.before) = 0 =>
              /\ w.kind = "rolling"
              /\ ~w.saved
              /\ w.after = <<>>
              /\ RowProcessed /\ tables[w.period] = last_row.tables[w.period]

\* a player's first record falls on a boundary of the period: the call is
\* made on the empty list
C20_Witness ==
    \E w \in written :
        /\ w.kind = "rolling" /\ Len(w.before) = 0 /\ ~w.saved
        /\ counts.processed[w.player] = 1
        /\ Len(Stored(w.period, w.player)) = 1

\* one step of the controller seen through the days it loads
DayStep ==
    /\ (loaded' /\ ~loaded) =>
          /\ day_log'.day = IF day_log.day < 0 THEN dates[1] ELSE day_log.day + 1
          /\ day_log'.day <= dates[2]
          /\ game_data' = {r \in game_stats : r.game_date = day_log'.day}
    /\ counts'.processed # counts.processed =>
          /\ last_row'.game_date = day_log.day
          /\ day_log' = [day_log EXCEPT !.flushed = day_log'.flushed]
    /\ (pc' = "Done" /\ pc # "Done") =>
          /\ day_log.day = dates[2]
          /\ ~loaded
          /\ day_log' = day_log
          /\ \A period \in AveragePeriods :
                 \A player \in DOMAIN cache[period] :
                     \E w \in written' :
                         w.kind = "force" /\ w.period = period /\ w.player = player
    /\ pc = "Done" => pc' = "Done" /\ day_log' = day_log /\ tables' = tables

\* the statements left to run: the days not yet ended, each counted as its
\* load, one step per row and its end, and the final writes
DayWeight == Cardinality(Players) + 2
Remaining ==
    CASE pc \in {"Done", "Failed"} -> 0
      [] pc = "AwaitingSeason" -> 2 + (dates[2] + 1 - dates[1]) * DayWeight
      [] OTHER -> 1 + (dates[2] + 1 - current_date) * DayWeight
                    + (IF loaded THEN Cardinality(game_data) + 1 - DayWeight ELSE 0)

\* C18: the days of the season are loaded one after the other from start_date
\* to end_date, each once and in increasing order, every row is processed in
\* the batch of its own day, the final writes follow the last day and nothing
\* runs after Done; every step leaves fewer statements to run, none are left
\* only at Done (or at the error of an unknown season), so the run ends.
C18_DaysInOrderThenDone ==
    /\ [](Remaining >= 0)
    /\ [](Remaining = 0 <=> pc \in {"Done", "Failed"})
    /\ [](pc = "Failed" => season_arg \notin KnownSeasons)
    /\ [][DayStep /\ Remaining' < Remaining]_vars

\* Done after a season of more than a week with a record, the last day
\* loaded being the season's last
C18_Witness ==
    /\ pc = "Done"
    /\ day_log.day = dates[2]
    /\ dates[2] > dates[1] + DaysPerWeek
    /\ current_date = dates[2] + 1
    /\ game_stats # {}

\* C12: in the season of ten days with a record of P1 on every day, the
\* one-week period has no rolling flush for P1 before the record of the
\* eighth day and exactly one from then on; that flush is triggered by the
\* eighth day's record with week_id 1, and the row it stores carries as
\* games_played the number of snapshots the list held, the seven of the days
\* before.
C12_OneFlushOnEighthDay ==
    LET eighth == dates[1] + DaysPerWeek
    IN  /\ counts.rolling[ONE_WEEK]["P1"]
              = IF counts.processed["P1"] >= DaysPerWeek + 1 THEN 1 ELSE 0
        /\ \A w \in written :
               (w.kind = "rolling" /\ w.period = ONE_WEEK /\ w.player = "P1") =>
                   /\ w.saved
                   /\ last_row.game_date = eighth
                   /\ WeekId(eighth, last_row.period_date[ONE_WEEK]) = 1
                   /\ Len(w.before) = DaysPerWeek
                   /\ w.row.games_played = Len(w.before)
        /\ counts.processed["P1"] >= DaysPerWeek + 1 =>
               \E r \in tables[ONE_WEEK] :
                   /\ r.player = "P1" /\ r.game_date = eighth
                   /\ r.games_played = DaysPerWeek

\* Done after the ten days, with the one rolling flush of the eighth day
C12_Witness ==
    /\ pc = "Done"
    /\ counts.processed["P1"] = dates[2] - dates[1] + 1
    /\ counts.rolling[ONE_WEEK]["P1"] = 1
    /\ \E r \in tables[ONE_WEEK] :
           r.player = "P1" /\ r.game_date = dates[1] + DaysPerWeek /\ r.games_played = DaysPerWeek

\* C14: the rows stored for a period depend on the records and on that
\* period's own length, counter and reference date only: the table of a
\* period is the table of the run in which that period is processed alone,
\* whatever the other periods count, flush and reset.
C14_RowsOfAPeriodAreItsOwn ==
    \A h \in AveragePeriods : tables[h] = solo[h].tables[h]

\* the rows of the day being processed, and the end of their processing
DayRows == {r \in game_stats : r.game_date = day_log.day}
BatchDone == pc = "ProcessingDay" /\ loaded /\ game_data = {}

\* C17: whatever the order in which the rows of a day are processed, the
\* cache, the counters, the flags and the tables after the last row are the
\* ones that one fixed order gives, and so are the counters and the
\* reference dates after the resets and tracker updates that end the day.
C17_BatchOrderDoesNotMatter ==
    /\ BatchDone => Program = day_log.expected
    /\ (pc = "ProcessingDay" /\ AfterBatch) =>
           Program = EndOfDay(day_log.expected, PeriodOrder, NextDate(day_log.day))

\* a day with a row of each player, both of which flushed the one-week period
C17_Witness ==
    /\ BatchDone
    /\ {r.player : r \in DayRows} = Players
    /\ Cardinality(DayRows) = Cardinality(Players)
    /\ day_log.flushed[ONE_WEEK] = Players
    /\ Program = day_log.expected

\* C26: after a row is processed, each period's list of the row's player is
\* the list it was before (less its oldest entry if the row flushed the
\* period) with the row's snapshot appended as the last entry.
C26_EveryRecordAppendedLast ==
    RowProcessed =>
        \A period \in AveragePeriods :
            LET list == Stored(period, last_row.player)
                before == last_row.before[period]
                kept == IF last_row.saved[period] THEN Tail(before) ELSE before
            IN  /\ Len(list) = Len(kept) + 1
                /\ SubSeq(list, 1, Len(list) - 1) = kept
                /\ list[Len(list)].game_date = last_row.game_date
                /\ list[Len(list)].player = last_row.player

\* a row that flushed the one-week period and not the nine-week period, and
\* is the last entry of both lists
C26_Witness ==
    /\ RowProcessed
    /\ last_row.saved[ONE_WEEK] /\ ~last_row.saved[NINE_WEEK]
    /\ Len(last_row.before[ONE_WEEK]) >= 2
    /\ \A period \in {ONE_WEEK, NINE_WEEK} :
           LET list == Stored(period, last_row.player)
           IN  list[Len(list)].game_date = last_row.game_date

\* a player's counter of a period when the day's batch began
CounterBefore(period, player) ==
    IF player \in DOMAIN day_log.games_played[period]
    THEN day_log.games_played[period][player] ELSE 0

\* C27: after a day's batch in which a period did not flush, every player's
\* counter of that period is its value before the batch plus the player's
\* records of the day, whatever the other periods flushed.
C27_CountersResetOnlyByOwnFlush ==
    AfterBatch =>
        \A h \in AveragePeriods :
            day_log.flushed[h] = {} =>
                \A player \in Players :
                    Counter(h, player) = CounterBefore(h, player)
                                           + Cardinality({r \in DayRows : r.player = player})

\* a batch in which the one-week period flushed and the nine-week period did
\* not, and a nine-week counter went on counting
C27_Witness ==
    /\ AfterBatch
    /\ day_log.flushed[ONE_WEEK] # {}
    /\ day_log.flushed[NINE_WEEK] = {}
    /\ \E player \in day_log.flushed[ONE_WEEK] :
           /\ CounterBefore(NINE_WEEK, player) >= 1
           /\ Counter(NINE_WEEK, player) = CounterBefore(NINE_WEEK, player) + 1
           /\ Counter(ONE_WEEK, player) = 0

\* C28: on a day of the season for which game_stats has no row, no step
\* changes the cache, the counters, the tracker or the tables, and the run
\* goes on: only the loading flag and the current date move.
C28_EmptyDayChangesOnlyTheDate ==
    [][(/\ pc = "ProcessingDay"
        /\ current_date <= dates[2]
        /\ ~\E r \in game_stats : r.game_date = current_date)
       => /\ cache' = cache
          /\ games_played' = games_played
          /\ saved_dates_tracker' = saved_dates_tracker
          /\ tables' = tables
          /\ written' = {}
          /\ pc' = pc
          /\ current_date' = IF loaded THEN current_date + 1 ELSE current_date]_vars

\* the end of a day without rows, after days that filled the cache and
\* stored a row
C28_Witness ==
    /\ AfterBatch /\ pc = "ProcessingDay"
    /\ DayRows = {}
    /\ current_date = day_log.day + 1
    /\ \E period \in AveragePeriods : tables[period] # {}
    /\ \E player \in Players : Counter(NINE_WEEK, player) >= 1
    /\ games_played = day_log.games_played
    /\ saved_dates_tracker.dates = day_log.period_date

\* C30: the games_played of a stored row, the divisor of its mean, is the
\* number of snapshots the list held when it was averaged.
C30_DivisorIsStoredCount ==
    \A w \in written : w.saved => w.row.games_played = Len(w.before)

\* a depot call of the step raised
DepotRaised(calls) == \E w \in calls : w.kind = "failed"

\* C21: when a depot write raises, the run is aborted in that step and takes
\* no step afterwards, so no further day is loaded; every row stored before
\* the step is still stored, as it was or overwritten under its key by a
\* write of the same step that went through: nothing is rolled back.
C21_DepotFailureAbortsWithoutRollback ==
    [][/\ pc # "Aborted"
       /\ DepotRaised(written') <=> pc' = "Aborted"
       /\ pc' = "Aborted" =>
             /\ current_date' = current_date
             /\ \A p \in AveragePeriods :
                    \A r \in tables[p] :
                        \/ r \in tables'[p]
                        \/ \E w \in written' :
                               w.kind # "failed" /\ w.period = p /\ SameKey(w.row, r)]_vars

\* aborted by a failed write on a day after a day that stored a row, which
\* is still stored
C21_Witness ==
    /\ pc = "Aborted"
    /\ \E w \in written :
         /\ w.kind = "failed"
         /\ \E r \in tables[w.period] :
                r.player = w.player /\ r.game_date < w.row.game_date
    /\ current_date <= dates[2]

-----------------------------------------------------------------------------
(* main without --season: every season of season_dates, one after another  *)

LaterSeason == "2020-21"

\* self.season_dates of this run: NBA.seasons holds two seasons of nine
\* days, as load_seasons reads it
season_dates ==
    [s \in {Season, LaterSeason} |->
        IF s = Season THEN <<0, DaysPerWeek + 1>>
        ELSE <<DaysPerWeek + 3, 2 * DaysPerWeek + 4>>]

\* the days of a season, counted from its start, a player may have a record on
SeasonGameDays(player) == IF player = "P1" THEN {0, 1, DaysPerWeek} ELSE {1}

\* the season the collector stores a day's rows under (depot.py line 128,
\* loader.py lines 263-270: a season is collected over its own dates)
SeasonOfDay(day) ==
    CHOOSE s \in DOMAIN season_dates :
        day >= season_dates[s][1] /\ day <= season_dates[s][2]

\* line 470 before the first key: the keys come in the order of the rows of
\* NBA.seasons, which the query of line 411 leaves open
InitAllSeasons ==
    /\ InitRest
    /\ probe = NoProbe
    /\ \E first \in DOMAIN season_dates :
         /\ season_arg = first
         /\ keys_left = <<CHOOSE s \in DOMAIN season_dates : s # first>>
         /\ dates = season_dates[first]
    /\ \E base \in RawPoints :
         \E days \in [DOMAIN season_dates ->
                         [P1 : SUBSET SeasonGameDays("P1"), P2 : SUBSET SeasonGameDays("P2")]] :
           game_stats =
             UNION {{[GameStatsRow(pl, season_dates[s][1] + d, base) EXCEPT
                         !.season = SeasonOfDay(season_dates[s][1] + d)] :
                     d \in days[s][pl]} : s \in DOMAIN season_dates, pl \in Players}

\* what the history variables hold before a season
NoDayLog(start) ==
    [period_date |-> [p \in AveragePeriods |-> start],
     games_played |-> [p \in AveragePeriods |-> EmptyDict],
     flushed |-> [p \in AveragePeriods |-> {}],
     expected |-> NoState(PeriodOrder),
     day |-> -1]

NoCounts ==
    [processed |-> [pl \in Players |-> 0],
     flushes |-> [p \in AveragePeriods |-> [pl \in Players |-> 0]],
     since_last |-> [p \in AveragePeriods |-> [pl \in Players |-> 0]],
     since_previous |-> [p \in AveragePeriods |-> [pl \in Players |-> 0]],
     rolling |-> [p \in AveragePeriods |-> [pl \in Players |-> 0]]]

NextSeasonKeepsLocals ==
    /\ pc = "Done"
    /\ keys_left # <<>>
    /\ season_arg' = Head(keys_left)
    /\ keys_left' = Tail(keys_left)
    /\ dates' = season_dates[Head(keys_left)]
    /\ pc' = "ProcessingDay"
    /\ current_date' = dates'[1]
    /\ written' = {}
    /\ last_row' = NoLastRow
    /\ day_log' = NoDayLog(dates'[1])
    /\ counts' = NoCounts
    /\ UNCHANGED <<probe, solo, game_stats, loaded, game_data, cache, games_played,
                   saved_dates_tracker, tables>>

\* lines 471-473, the next key of the loop, and lines 418-431 of the call
\* for it: the key is one of season_dates, and dates, current_date, cache,
\* games_played and saved_dates_tracker are new locals of that call
NextSeason ==
    /\ pc = "Done"
    /\ keys_left # <<>>
    /\ season_arg' = Head(keys_left)
    /\ keys_left' = Tail(keys_left)
    /\ dates' = season_dates[Head(keys_left)]
    /\ pc' = "ProcessingDay"
    /\ current_date' = dates'[1]
    /\ cache' = [p \in AveragePeriods |-> EmptyDict]
    /\ games_played' = [p \in AveragePeriods |-> EmptyDict]
    /\ saved_dates_tracker' = NewTracker(dates'[1])
    /\ solo' = [h \in AveragePeriods |-> FreshState(<<h>>, dates'[1])]
    /\ written' = {}
    /\ last_row' = NoLastRow
    /\ day_log' = NoDayLog(dates'[1])
    /\ counts' = NoCounts
    /\ UNCHANGED <<probe, game_stats, loaded, game_data, tables>>

\* lines 471-473 for the first key and lines 418-431 of the call for it:
\* the key is one of season_dates, so line 420 is not reached
FirstSeason ==
    /\ pc = "AwaitingSeason"
    /\ season_arg \in DOMAIN season_dates
    /\ BeginSeason

NextAllSeasons == FirstSeason \/ LoadDay \/ ProcessRow \/ EndDay \/ ForceFlush \/ NextSeason

SpecAllSeasons == InitAllSeasons /\ [][NextAllSeasons]_vars

\* the snapshots an accumulator holds
Snapshots(period, player) == {cache[period][player][i] : i \in DOMAIN cache[period][player]}

\* the records of a player in a season up to a day
RecordsUpTo(player, season, day) ==
    {r \in game_stats : r.player = player /\ r.season = season /\ r.game_date <= day}

\* C22: every season run starts from fresh state.  The step that starts a
\* season leaves every accumulator and every games-played counter empty and
\* the three reference dates at the season's own start date; while a season
\* is processed every snapshot held is of a record of that season, no
\* counter exceeds the player's records of that season, no reference date
\* is before the season's start, every row written is a row of that season,
\* and the rows stored for another season stay as they are.
C22_EverySeasonStartsFresh ==
    /\ [][pc # "ProcessingDay" /\ pc' = "ProcessingDay" =>
            /\ dates' = season_dates[season_arg']
            /\ current_date' = dates'[1]
            /\ \A p \in AveragePeriods :
                 /\ cache'[p] = EmptyDict
                 /\ games_played'[p] = EmptyDict
                 /\ saved_dates_tracker'.dates[p] = dates'[1]
                 /\ ~saved_dates_tracker'.flags[p]]_vars
    /\ [](pc \in {"ProcessingDay", "Done"} =>
            /\ \A p \in AveragePeriods :
                 /\ saved_dates_tracker.dates[p] >= dates[1]
                 /\ \A pl \in DOMAIN cache[p] : \A s \in Snapshots(p, pl) :
                        /\ s.season = season_arg
                        /\ s.game_date >= dates[1] /\ s.game_date <= dates[2]
                 /\ \A pl \in DOMAIN games_played[p] :
                        games_played[p][pl]
                            <= Cardinality(RecordsUpTo(pl, season_arg, current_date))
            /\ \A w \in written : w.saved => w.row.season = season_arg)
    /\ [][\A p \in AveragePeriods : \A r \in tables[p] :
              r.season # season_arg' => r \in tables'[p]]_vars

\* the second season is being processed: the depot holds a row of the first
\* season's final flush for P1, whose one-week accumulator now holds a
\* snapshot again
C22_Witness ==
    /\ pc = "ProcessingDay"
    /\ keys_left = <<>>
    /\ \E r \in tables[ONE_WEEK] : r.player = "P1" /\ r.season # season_arg
    /\ "P1" \in DOMAIN cache[ONE_WEEK]
    /\ cache[ONE_WEEK]["P1"] # <<>>

-----------------------------------------------------------------------------
(* One function applied on its own: the controller is not run, probe holds *)
(* the arguments drawn and, once the function is applied, its results      *)

\* the controller's variables while only a function is applied
NoController ==
    /\ InitRest
    /\ keys_left = <<>>
    /\ season_arg = Season
    /\ dates = <<0, 0>>
    /\ game_stats = {}

ControllerUnchanged ==
    UNCHANGED <<pc, keys_left, season_arg, solo, game_stats, dates, current_date, loaded,
                game_data, cache, games_played, saved_dates_tracker, tables,
                written, last_row, day_log, counts>>

RatLess(x, y) == x[1] * y[2] < y[1] * x[2]
RatNeg(x) == <<-x[1], x[2]>>

\* the values normalize is tabulated for
RawValues == {i - 21 : i \in DOMAIN NormalizeTable}

InitNormalize ==
    /\ NoController
    /\ \E x \in RawValues, y \in RawValues :
         probe = [op |-> "normalize", args |-> <<x, y>>, out |-> <<>>]

\* line 112 for each of the two arguments
ApplyNormalize ==
    /\ probe.op = "normalize"
    /\ probe.out = <<>>
    /\ probe' = [probe EXCEPT !.out = <<normalize(probe.args[1]), normalize(probe.args[2])>>]
    /\ ControllerUnchanged

NextNormalize == ApplyNormalize

SpecNormalize == InitNormalize /\ [][NextNormalize]_vars

\* C25: normalize maps 0 to 0, a smaller argument to a smaller result, and
\* the negative of an argument to the negative of its result.
C25_NormalizeZeroMonotoneOdd ==
    probe.op = "normalize" /\ probe.out # <<>> =>
        LET x == probe.args[1]
            y == probe.args[2]
        IN  /\ x = 0 => probe.out[1] = RatOfInt(0)
            /\ x < y => RatLess(probe.out[1], probe.out[2])
            /\ y = -x => probe.out[2] = RatNeg(probe.out[1])

\* normalize applied to a negative value and to its negative
C25_Witness ==
    /\ probe.op = "normalize"
    /\ probe.out # <<>>
    /\ probe.args[1] < 0
    /\ probe.args[2] = -probe.args[1]
    /\ RatLess(probe.out[1], probe.out[2])

-----------------------------------------------------------------------------
(* The snapshot of a record, lines 120-144, with every stat of the row.    *)
(* Values are in thousandths, as normalize's are.                          *)

Thousandths(n, d) == Rat(1000 * n, d)

\* the columns of game_stats that line 126 and lines 128-144 normalize
NormalizedFields ==
    {"field_goals", "field_goal_attempts", "free_throw_attempts", "free_throws",
     "three_points", "three_point_attempts", "offensive_rebounds", "defensive_rebounds",
     "assists", "steels", "blocks", "turn_overs", "personal_fouls", "points_scored",
     "plus_minus", "game_rating_score"}

\* line 125: the minutes of a time of day
MinutesPlayed(t) == Thousandths((t.hour * 60 + t.minute) * 60 + t.second, 60)

\* lines 120-144: the dict stat before its games_played stamps
Snapshot(row, week) ==
    [f \in NormalizedFields \cup {"player", "game_date", "season", "week_id",
                                  "minutes_played", "total_rebounds"} |->
        CASE f = "player" -> row.player
          [] f = "game_date" -> row.game_date
          [] f = "season" -> row.season
          [] f = "week_id" -> week
          [] f = "minutes_played" -> MinutesPlayed(row.minutes_played)
          [] f = "total_rebounds" -> normalize(row.offensive_rebounds + row.defensive_rebounds)
          [] OTHER -> normalize(row[f])]

\* times of day the column minutes_played may hold
PlayedTimes ==
    {[hour |-> 0, minute |-> 0, second |-> 0], [hour |-> 0, minute |-> 12, second |-> 0],
     [hour |-> 0, minute |-> 35, second |-> 30], [hour |-> 1, minute |-> 0, second |-> 5]}

\* a row of game_stats with all its columns: the counting stats from a few
\* small values, plus_minus and game_rating_score of either sign
RawRows ==
    {[player |-> "P1", game_date |-> 0, season |-> Season, minutes_played |-> t,
      field_goals |-> k, field_goal_attempts |-> k + 2,
      free_throws |-> j, free_throw_attempts |-> j + 1,
      three_points |-> k, three_point_attempts |-> k + 1,
      offensive_rebounds |-> o, defensive_rebounds |-> d,
      assists |-> j + 3, steels |-> j, blocks |-> o, turn_overs |-> d,
      personal_fouls |-> j + 2, points_scored |-> 2 * k + j,
      plus_minus |-> pm, game_rating_score |-> pm + k] :
        t \in PlayedTimes, k \in 0 .. 2, j \in 0 .. 2, o \in 0 .. 2, d \in 0 .. 2,
        pm \in {-5, 0, 5}}

InitSnapshot ==
    /\ NoController
    /\ \E row \in RawRows : probe = [op |-> "snapshot", args |-> <<row>>, out |-> <<>>]

\* lines 120-144 for one row, in the first week
ApplySnapshot ==
    /\ probe.op = "snapshot"
    /\ probe.out = <<>>
    /\ probe' = [probe EXCEPT !.out = <<Snapshot(probe.args[1], 1)>>]
    /\ ControllerUnchanged

NextSnapshot == ApplySnapshot

SpecSnapshot == InitSnapshot /\ [][NextSnapshot]_vars

\* the raw value a numeric field of the snapshot corresponds to, in units
RawOf(row, f) ==
    CASE f = "minutes_played" ->
             Rat((row.minutes_played.hour * 60 + row.minutes_played.minute) * 60
                 + row.minutes_played.second, 60)
      [] f = "total_rebounds" -> RatOfInt(row.offensive_rebounds + row.defensive_rebounds)
      [] OTHER -> RatOfInt(row[f])

\* C29: every numeric field of a snapshot is normalize of its raw value (for
\* the raw values normalize is tabulated for: whole numbers in -20 .. 20).
C29_EveryFieldNormalizedOnce ==
    probe.op = "snapshot" /\ probe.out # <<>> =>
        \A f \in NormalizedFields \cup {"minutes_played", "total_rebounds"} :
            LET raw == RawOf(probe.args[1], f)
            IN  raw[2] = 1 /\ raw[1] \in RawValues =>
                    probe.out[1][f] = normalize(raw[1])

\* the same for the fields other than minutes_played
FieldsButMinutesNormalizedOnce ==
    probe.op = "snapshot" /\ probe.out # <<>> =>
        \A f \in NormalizedFields \cup {"total_rebounds"} :
            LET raw == RawOf(probe.args[1], f)
            IN  raw[2] = 1 /\ raw[1] \in RawValues /\ probe.out[1][f] = normalize(raw[1])

-----------------------------------------------------------------------------
(* The composite scores of a flush, lines 236-243, on an averaged row with *)
(* every stat.  Values are exact rationals in units.                       *)

RatMul(x, y) == Rat(x[1] * y[1], x[2] * y[2])
RatSub(x, y) == RatAdd(x, RatNeg(y))
RatTimes(k, x) == RatMul(RatOfInt(k), x)

\* dict.get: None for a key the dict does not have
None == <<"None">>
Get(row, key) == IF key \in DOMAIN row THEN row[key] ELSE None

\* normalize of a value outside the table, kept as the term it is: normalize
\* is strictly increasing, so two such terms are equal exactly when their
\* arguments are
NormalizeOf(value) == [asinh_of_half |-> value]

\* lines 306-319 below the first line: each line is the else branch of the
\* conditional expression before it, "0 + weight * row.get(key) if
\* row.get(key) is not None else" the rest
OverallRest ==
    <<<<85, "field_goal">>, <<53, "steels">>, <<51, "three_points">>, <<46, "free_throws">>,
      <<39, "blocks">>, <<39, "offensive_rebounds">>, <<34, "assists">>,
      <<14, "defensive_rebounds">>, <<-17, "personal_fouls">>,
      <<-20, "free_throw_attempts">>, <<-53, "turn_overs">>, <<1, "plus_minus">>,
      <<1, "game_rating_score">>>>

RECURSIVE OverallElse(_, _)
OverallElse(row, terms) ==
    IF terms = <<>> THEN RatOfInt(0)
    ELSE LET weight == Head(terms)[1]
             key == Head(terms)[2]
             value == Get(row, key)
         IN  IF key = "free_throw_attempts"
             THEN \* line 316: the condition is the truth of the value
                  IF value # None /\ value[1] # 0
                  THEN RatTimes(weight, RatSub(value, Get(row, "free_throws")))
                  ELSE OverallElse(row, Tail(terms))
             ELSE IF value # None
                  THEN RatTimes(weight, value)
                  ELSE OverallElse(row, Tail(terms))

\* calc_overall, lines 303-320: one conditional expression, whose value is
\* row.get('points_scored') whenever that is not None
calc_overall(row) ==
    LET minutes_per_game == IF Get(row, "minutes_per_game") # None
                            THEN row.minutes_per_game ELSE RatOfInt(1)
        val == IF Get(row, "points_scored") # None
               THEN row.points_scored
               ELSE OverallElse(row, OverallRest)
    IN  RatMul(val, <<minutes_per_game[2], minutes_per_game[1]>>)

\* lines 323-326
calc_center_stats(row) ==
    RatAdd(RatAdd(RatTimes(80, RatAdd(row.defensive_rebounds, row.offensive_rebounds)),
                  RatTimes(45, row.blocks)),
           RatAdd(RatTimes(65, row.field_goals), RatOfInt(45 * row.games_played)))

\* lines 328-331
calc_guard_stats(row) ==
    RatAdd(RatSub(RatAdd(RatTimes(85, RatAdd(row.assists, row.steels)),
                         RatMul(row.three_points, row.points_scored)),
                  row.turn_overs),
           RatOfInt(25 * row.games_played))

\* lines 333-336
calc_forward_stats(row) ==
    RatAdd(RatSub(RatAdd(RatMul(row.field_goals, row.points_scored),
                         RatTimes(40, row.three_point_attempts)),
                  row.three_points),
           RatOfInt(60 * row.games_played))

\* lines 235-243: what write_averages adds to the averaged row avg
Composites(avg, max_games) ==
    LET row == [f \in DOMAIN avg \cup {"games_played"} |->
                   IF f = "games_played" THEN max_games ELSE avg[f]]
    IN  [games_played |-> max_games,
         overall_efficiency |-> NormalizeOf(calc_overall(row)),
         center_player_stats |-> NormalizeOf(calc_center_stats(row)),
         guard_player_stats |-> NormalizeOf(calc_guard_stats(row)),
         forward_player_stats |-> NormalizeOf(calc_forward_stats(row)),
         minutes_per_game |-> RatDiv(row.minutes_played, max_games)]

\* the numeric keys of an averaged row
AveragedFields == NormalizedFields \cup {"minutes_played", "total_rebounds"}

\* averaged rows: every stat a small multiple of a half, no two alike
AveragedRows ==
    {[f \in AveragedFields |->
         CASE f = "minutes_played" -> Rat(24 + k, 1)
           [] f = "plus_minus" -> Rat(k - 2, 2)
           [] f = "points_scored" -> Rat(3 + k, 2)
           [] f \in {"free_throw_attempts", "field_goal_attempts", "three_point_attempts"} ->
                  Rat(4 + k, 2)
           [] OTHER -> Rat(1 + k, 2)] : k \in 0 .. 3}

\* two averaged rows that differ in one stat, and the divisor of the flush
InitComposites ==
    /\ NoController
    /\ \E base \in AveragedRows, f \in AveragedFields, max_games \in 1 .. 2 :
         probe = [op |-> "composites",
                  args |-> <<base, [base EXCEPT ![f] = RatAdd(@, <<1, 2>>)], max_games>>,
                  out |-> <<>>]

\* lines 235-243 for each of the two rows
ApplyComposites ==
    /\ probe.op = "composites"
    /\ probe.out = <<>>
    /\ probe' = [probe EXCEPT !.out = <<Composites(probe.args[1], probe.args[3]),
                                        Composites(probe.args[2], probe.args[3])>>]
    /\ ControllerUnchanged

NextComposites == ApplyComposites

SpecComposites == InitComposites /\ [][NextComposites]_vars

\* the two rows of the probe differ in the stat f alone
DiffersOnlyIn(f) ==
    /\ probe.args[1][f] # probe.args[2][f]
    /\ \A g \in AveragedFields \ {f} : probe.args[1][g] = probe.args[2][g]

\* the stats overall_efficiency enters with a weight of its own
OverallInputs ==
    {"points_scored", "field_goals", "three_points", "offensive_rebounds",
     "defensive_rebounds", "steels", "assists", "blocks", "field_goal_attempts",
     "free_throw_attempts", "three_point_attempts", "personal_fouls", "minutes_played",
     "turn_overs"}

\* C24: every composite is normalize of a combination of the averaged stats
\* its formula names: of two averaged rows that differ in one of the stats
\* of overall_efficiency alone, the overall_efficiency differs, and of two
\* rows that differ in minutes_played alone the center, guard and forward
\* scores differ.
C24_CompositesVaryWithNamedStats ==
    probe.op = "composites" /\ probe.out # <<>> =>
        /\ \A f \in OverallInputs :
               DiffersOnlyIn(f) =>
                   probe.out[1].overall_efficiency # probe.out[2].overall_efficiency
        /\ DiffersOnlyIn("minutes_played") =>
               /\ probe.out[1].center_player_stats # probe.out[2].center_player_stats
               /\ probe.out[1].guard_player_stats # probe.out[2].guard_player_stats
               /\ probe.out[1].forward_player_stats # probe.out[2].forward_player_stats

\* what the code's composites do vary with and are
CompositesAsComputed ==
    probe.op = "composites" /\ probe.out # <<>> =>
        /\ probe.out[1].overall_efficiency = NormalizeOf(probe.args[1].points_scored)
        /\ \A f \in AveragedFields \ {"points_scored"} :
               DiffersOnlyIn(f) =>
                   probe.out[1].overall_efficiency = probe.out[2].overall_efficiency
        /\ DiffersOnlyIn("minutes_played") =>
               /\ probe.out[1].center_player_stats = probe.out[2].center_player_stats
               /\ probe.out[1].guard_player_stats = probe.out[2].guard_player_stats
               /\ probe.out[1].forward_player_stats = probe.out[2].forward_player_stats
        /\ \A f \in {"offensive_rebounds", "defensive_rebounds", "blocks", "field_goals"} :
               DiffersOnlyIn(f) =>
                   probe.out[1].center_player_stats # probe.out[2].center_player_stats

-----------------------------------------------------------------------------
(* The collector's sink, src/src/nba/collector/depot.py: store_records and *)
(* convert.  A scraped cell is a text, a sequence of characters; a scraped *)
(* row maps the headers it has to their cells.                             *)

Digits == <<"0", "1", "2", "3", "4", "5", "6", "7", "8", "9">>
IsDigit(c) == \E i \in DOMAIN Digits : Digits[i] = c
DigitValue(c) == (CHOOSE i \in DOMAIN Digits : Digits[i] = c) - 1
AllDigits(text) == text # <<>> /\ \A i \in DOMAIN text : IsDigit(text[i])

\* str.strip
RECURSIVE Strip(_)
Strip(text) ==
    IF text # <<>> /\ Head(text) = " " THEN Strip(Tail(text))
    ELSE IF text # <<>> /\ text[Len(text)] = " " THEN Strip(SubSeq(text, 1, Len(text) - 1))
    ELSE text

\* the number a sequence of digits writes
RECURSIVE Number(_)
Number(ds) ==
    IF ds = <<>> THEN 0
    ELSE 10 * Number(SubSeq(ds, 1, Len(ds) - 1)) + DigitValue(ds[Len(ds)])

RECURSIVE Power10(_)
Power10(n) == IF n = 0 THEN 1 ELSE 10 * Power10(n - 1)

\* str.split on a separator
RECURSIVE Split(_, _)
Split(text, sep) ==
    IF \A i \in DOMAIN text : text[i] # sep THEN <<text>>
    ELSE LET i == CHOOSE k \in DOMAIN text :
                      text[k] = sep /\ \A j \in 1 .. k - 1 : text[j] # sep
         IN  <<SubSeq(text, 1, i - 1)>> \o Split(SubSeq(text, i + 1, Len(text)), sep)

\* a call either returns a value or raises
Raised == [raised |-> TRUE]
Returned(v) == [raised |-> FALSE, value |-> v]

\* python int(str): an optional sign and digits, blanks around them
int(text) ==
    LET t == Strip(text)
        signed == t # <<>> /\ t[1] \in {"-", "+"}
        ds == IF signed THEN Tail(t) ELSE t
    IN  IF AllDigits(ds)
        THEN Returned(IF signed /\ t[1] = "-" THEN -Number(ds) ELSE Number(ds))
        ELSE Raised

\* python float(str) of a decimal numeral: an optional sign, digits and at
\* most one point; the value is kept exact
float(text) ==
    LET t == Strip(text)
        signed == t # <<>> /\ t[1] \in {"-", "+"}
        body == IF signed THEN Tail(t) ELSE t
        parts == Split(body, ".")
        ds == IF Len(parts) = 2 THEN parts[1] \o parts[2] ELSE parts[1]
        places == IF Len(parts) = 2 THEN Len(parts[2]) ELSE 0
    IN  IF Len(parts) <= 2 /\ AllDigits(ds)
        THEN Returned(Rat(IF signed /\ t[1] = "-" THEN -Number(ds) ELSE Number(ds),
                          Power10(places)))
        ELSE Raised

\* datetime.time(hour, minute, second): ValueError outside the clock
time(hour, minute, second) ==
    IF hour \in 0 .. 23 /\ minute \in 0 .. 59 /\ second \in 0 .. 59
    THEN Returned([hour |-> hour, minute |-> minute, second |-> second])
    ELSE Raised

\* convert for NBATypes.TIME, lines 153-159
convert_time(value, is_blank) ==
    LET time_split == IF ~is_blank THEN Split(value, ":") ELSE <<<<"0">>, <<"0">>>>
        minute == int(time_split[1])
    IN  IF minute.raised \/ Len(time_split) < 2 THEN Raised
        ELSE LET second == int(time_split[2])
             IN  IF second.raised THEN Raised
                 ELSE IF minute.value < 60
                      THEN time(0, minute.value, second.value)
                      ELSE time(IntTrunc(minute.value, 60), 0, second.value)

\* NBADataSink.convert, lines 137-161
convert(value, data_type) ==
    IF value = None THEN Returned(None)
    ELSE LET is_blank == Len(Strip(value)) = 0
         IN  CASE data_type = "STRING" -> Returned(IF ~is_blank THEN value ELSE <<>>)
               [] data_type = "INTEGER" -> IF ~is_blank THEN int(value) ELSE Returned(0)
               [] data_type = "DECIMAL" -> IF ~is_blank THEN float(value) ELSE Returned(RatOfInt(0))
               [] data_type = "TIME" -> convert_time(value, is_blank)
               [] data_type = "BOOLEAN" -> Returned(IF ~is_blank THEN Len(value) > 0 ELSE FALSE)

\* _init_header_mappings, lines 51-73, in the order of the dict
header_mappings ==
    <<<<"Player", "player", "STRING">>, <<"Tm", "team", "STRING">>,
      <<"game_location", "home_game", "BOOLEAN">>, <<"Opp", "opponent", "STRING">>,
      <<"MP", "minutes_played", "TIME">>, <<"FG", "field_goals", "INTEGER">>,
      <<"FGA", "field_goal_attempts", "INTEGER">>, <<"3P", "three_points", "INTEGER">>,
      <<"3PA", "three_point_attempts", "INTEGER">>, <<"FT", "free_throws", "INTEGER">>,
      <<"FTA", "free_throw_attempts", "INTEGER">>, <<"ORB", "offensive_rebounds", "INTEGER">>,
      <<"DRB", "defensive_rebounds", "INTEGER">>, <<"AST", "assists", "INTEGER">>,
      <<"STL", "steels", "INTEGER">>, <<"BLK", "blocks", "INTEGER">>,
      <<"TOV", "turn_overs", "INTEGER">>, <<"PF", "personal_fouls", "INTEGER">>,
      <<"PTS", "points_scored", "INTEGER">>, <<"+/-", "plus_minus", "INTEGER">>,
      <<"GmSc", "game_rating_score", "DECIMAL">>>>

HeaderKeys == {header_mappings[i][1] : i \in DOMAIN header_mappings}

\* lines 122-131 for one row: the record inbound, or the exception of a
\* missing key (row[key]) or of a cell convert cannot read
RECURSIVE Inbound(_, _, _)
Inbound(row, mappings, inbound) ==
    IF mappings = <<>> THEN Returned(inbound)
    ELSE LET key == Head(mappings)[1]
         IN  IF key \notin DOMAIN row THEN Raised
             ELSE LET converted == convert(row[key], Head(mappings)[3])
                  IN  IF converted.raised THEN Raised
                      ELSE Inbound(row, Tail(mappings),
                                   Put(inbound, Head(mappings)[2], converted.value))

\* store_records, lines 114-135, with a depot that takes the batch: the
\* records inserted and the rows an error was printed for
store_records(saved_dates, season_loading, game_date, rows) ==
    IF game_date \in saved_dates THEN [params |-> {}, errors |-> {}]
    ELSE LET made == [i \in DOMAIN rows |->
                         LET r == Inbound(rows[i], header_mappings,
                                          [k \in {"game_date"} |-> game_date])
                         IN  IF r.raised THEN r
                             ELSE Returned(Put(r.value, "season", season_loading))]
         IN  [params |-> {made[i].value : i \in {j \in DOMAIN rows : ~made[j].raised}},
              errors |-> {rows[i] : i \in {j \in DOMAIN rows : made[j].raised}}]

\* a scraped row with every header: the player's name and small numerals
ScrapedRow(name, minutes, points, rating) ==
    [k \in HeaderKeys |->
        CASE k = "Player" -> name
          [] k = "Tm" -> <<"L", "A", "L">>
          [] k = "Opp" -> <<"B", "O", "S">>
          [] k = "game_location" -> <<"T", "r", "u", "e">>
          [] k = "MP" -> minutes
          [] k = "PTS" -> points
          [] k = "GmSc" -> rating
          [] k = "+/-" -> <<"-", "4">>
          [] OTHER -> <<"3">>]

\* a dict without some of its keys
Without(row, keys) == [k \in DOMAIN row \ keys |-> row[k]]

\* the cell the page has no td for
NoCell == <<"no td">>

MinutesCells == {<<"1", "2", ":", "3", "0">>, <<"6", "5", ":", "1", "0">>, <<>>}
PointsCells == {NoCell, <<>>, <<" ">>, <<"1", "2">>}
RatingCells == {NoCell, <<>>, <<"7", ".", "5">>, <<"-", "1", ".", "2">>}

\* store_records is called for day 0 with the rows of two players; the
\* first row's cells vary, and the day may have been saved before
InitCollector ==
    /\ InitRest
    /\ keys_left = <<>>
    /\ season_arg = Season
    /\ dates = <<0, 0>>
    /\ game_stats = {}
    /\ \E minutes \in MinutesCells, points \in PointsCells, rating \in RatingCells,
          saved_dates \in {{}, {0}} :
         probe = [op |-> "store_records",
                  args |-> <<saved_dates, 0,
                             <<Without(ScrapedRow(<<"P", "1">>, minutes, points, rating),
                                       {k \in {"PTS", "GmSc"} :
                                          ScrapedRow(<<"P", "1">>, minutes, points, rating)[k] = NoCell}),
                               ScrapedRow(<<"P", "2">>, <<"3", "0", ":", "0", "0">>,
                                          <<"8">>, <<"5", ".", "0">>)>>>>,
                  out |-> <<>>]

\* store_records, lines 106-135; line 133 inserts params into NBA.game_stats
StoreRecords ==
    /\ probe.op = "store_records"
    /\ probe.out = <<>>
    /\ LET done == store_records(probe.args[1], Season, probe.args[2], probe.args[3])
       IN  /\ game_stats' = game_stats \cup done.params
           /\ probe' = [probe EXCEPT !.out = <<done>>]
    /\ UNCHANGED <<pc, keys_left, season_arg, solo, dates, current_date, loaded,
                   game_data, cache, games_played, saved_dates_tracker, tables,
                   written, last_row, day_log, counts>>

NextCollector == StoreRecords

SpecCollector == InitCollector /\ [][NextCollector]_vars

\* the numeric columns and what zero is in each
NumericMappings ==
    {header_mappings[i] : i \in {j \in DOMAIN header_mappings :
                                    header_mappings[j][3] \in {"INTEGER", "DECIMAL"}}}
ZeroOf(data_type) == IF data_type = "INTEGER" THEN Returned(0) ELSE Returned(RatOfInt(0))

StoredFor(row) == {r \in game_stats : r.player = row["Player"]}

\* store_records has run for a day not saved before
Collected ==
    probe.op = "store_records" /\ probe.out # <<>> /\ probe.args[2] \notin probe.args[1]

\* C23: a row with a numeric field missing or blank is stored, with zero
\* (0 for an integer column, 0.0 for a decimal one) in that field.
C23_MissingOrBlankStoredAsZero ==
    Collected =>
        \A i \in DOMAIN probe.args[3] :
            LET row == probe.args[3][i]
            IN  \A m \in NumericMappings :
                    (m[1] \notin DOMAIN row \/ Len(Strip(row[m[1]])) = 0) =>
                        \E r \in StoredFor(row) : Returned(r[m[2]]) = ZeroOf(m[3])

\* what the code does: a blank numeric cell is stored as zero with its row,
\* a row without the key of a numeric column is not stored and is printed
\* as an error, and the other row of the batch is stored either way
BlankStoredAsZeroMissingDropped ==
    Collected =>
        /\ \A i \in DOMAIN probe.args[3] :
            LET row == probe.args[3][i]
            IN  /\ HeaderKeys \subseteq DOMAIN row =>
                       /\ Cardinality(StoredFor(row)) = 1
                       /\ \A m \in NumericMappings :
                              Len(Strip(row[m[1]])) = 0 =>
                                  \E r \in StoredFor(row) : Returned(r[m[2]]) = ZeroOf(m[3])
                /\ ~(HeaderKeys \subseteq DOMAIN row) =>
                       StoredFor(row) = {} /\ row \in probe.out[1].errors
        /\ \E r \in game_stats : r.player = <<"P", "2">>

\* the days on which a rolling flush of a period has stored a row: while
\* the days of a season are processed the tables hold, for that season, the
\* rows of rolling flushes only, each under the day of the record that
\* caused it
RollingFlushDays(period) ==
    {r.game_date : r \in {x \in tables[period] : x.season = season_arg}}

\* C31: while the days of the season are processed, every day on which a
\* rolling flush of a period of L weeks stored a row is at least 7 * L days
\* after the season's start, and any two such days of the period are more
\* than 7 * L days apart.
C31_RollingFlushesAreSpaced ==
    pc = "ProcessingDay" =>
        \A period \in AveragePeriods :
            /\ \A d \in RollingFlushDays(period) : d - dates[1] >= DaysPerWeek * period
            /\ \A d1 \in RollingFlushDays(period), d2 \in RollingFlushDays(period) :
                   d1 < d2 => d2 - d1 > DaysPerWeek * period

\* the one-week period has stored rows of rolling flushes on two days
C31_Witness ==
    /\ pc = "ProcessingDay"
    /\ \E d1 \in RollingFlushDays(ONE_WEEK), d2 \in RollingFlushDays(ONE_WEEK) : d1 < d2

\* C32: in a season run no period's reference date is later than the day
\* being processed, and no step moves it backwards; so for every processed
\* row the week_id of each period is not negative, and truncating the
\* division by seven gives its floor.
C32_ReferenceDateNeverAhead ==
    /\ [](pc \in {"ProcessingDay", "Done"} =>
            \A period \in AveragePeriods :
                /\ saved_dates_tracker.dates[period] <= current_date
                /\ saved_dates_tracker.dates[period] >= dates[1])
    /\ [][\A period \in AveragePeriods :
              saved_dates_tracker'.dates[period] >= saved_dates_tracker.dates[period]]_vars
    /\ [](RowProcessed =>
            \A period \in AveragePeriods :
                /\ last_row.period_date[period] <= last_row.game_date
                /\ WeekId(last_row.game_date, last_row.period_date[period]) >= 0
                /\ WeekId(last_row.game_date, last_row.period_date[period])
                       = (last_row.game_date - last_row.period_date[period]) \div DaysPerWeek)

\* a row processed a week or more after the one-week reference date, which
\* a flush has moved from the season's start
C32_Witness ==
    /\ RowProcessed
    /\ last_row.period_date[ONE_WEEK] > dates[1]
    /\ WeekId(last_row.game_date, last_row.period_date[ONE_WEEK]) >= 1

\* C33: every list of the cache holds a snapshot whenever a record has been
\* processed, and every list the final flush writes has a first entry.
C33_AccumulatorsNeverEmpty ==
    /\ pc = "ProcessingDay" =>
           \A period \in AveragePeriods : \A player \in DOMAIN cache[period] :
               Len(cache[period][player]) >= 1
    /\ \A w \in written : w.kind = "force" => Len(w.before) >= 1

\* a rolling flush of the latest row took the only snapshot of the player's
\* one-week list, which holds the row's snapshot afterwards
C33_Witness ==
    /\ RowProcessed
    /\ last_row.saved[ONE_WEEK]
    /\ Len(last_row.before[ONE_WEEK]) = 1
    /\ Len(cache[ONE_WEEK][last_row.player]) = 1

-----------------------------------------------------------------------------
(* The minutes of a scraped cell MM:SS, from the collector's convert to    *)
(* line 125 of the engine                                                  *)

MaxScrapedMinutes == 70

\* the text of a number, and of the seconds of a cell, as the page writes them
RECURSIVE Numeral(_)
Numeral(n) ==
    IF n < 10 THEN <<Digits[n + 1]>>
    ELSE Numeral(n \div 10) \o <<Digits[(n % 10) + 1]>>

TwoDigits(n) == <<Digits[(n \div 10) + 1], Digits[(n % 10) + 1]>>

InitMinutes ==
    /\ NoController
    /\ \E mm \in 0 .. MaxScrapedMinutes, ss \in {0, 5, 30, 59} :
         probe = [op |-> "minutes", args |-> <<mm, ss, Numeral(mm) \o <<":">> \o TwoDigits(ss)>>,
                  out |-> <<>>]

\* depot.py lines 153-159 on the cell, then averages.py lines 124-125 on the
\* time the depot returns for the column
ApplyMinutes ==
    /\ probe.op = "minutes"
    /\ probe.out = <<>>
    /\ \E stored \in {convert(probe.args[3], "TIME")} :
         probe' = [probe EXCEPT !.out =
                      <<stored, IF stored.raised THEN None ELSE MinutesPlayed(stored.value)>>]
    /\ ControllerUnchanged

NextMinutes == ApplyMinutes

SpecMinutes == InitMinutes /\ [][NextMinutes]_vars

\* C34: a cell MM:SS is stored as a time whose minutes, as line 125 of the
\* engine computes them, are MM + SS / 60.
C34_MinutesArePreserved ==
    probe.op = "minutes" /\ probe.out # <<>> =>
        /\ ~probe.out[1].raised
        /\ probe.out[2] = Thousandths(probe.args[1] * 60 + probe.args[2], 60)

\* what the code does: below an hour the minutes are preserved, from an
\* hour on the minutes beyond the whole hours are lost
MinutesBeyondTheHourAreLost ==
    probe.op = "minutes" /\ probe.out # <<>> =>
        /\ ~probe.out[1].raised
        /\ probe.out[2] = Thousandths(IF probe.args[1] < 60
                                      THEN probe.args[1] * 60 + probe.args[2]
                                      ELSE (probe.args[1] \div 60) * 3600 + probe.args[2], 60)

====
